---- MODULE Spec2Model ----
(***************************************************************************)
(* A model of the user/address service: the hashing utility                *)
(* (src/src/utils/hash.ts), the DatabaseService (src/unnamed/part_000) and *)
(* the HTTP routes (src/unnamed/part_001).                                 *)
(*                                                                         *)
(* Text values are sequences of one-token strings so that toLowerCase and  *)
(* string concatenation are computed, not assumed.  The JavaScript value   *)
(* `undefined` is the one-token sequence Undefined.  A digest is modelled  *)
(* as an injective tagging of the string fed to it (no digest collisions). *)
(* A table is a set of rows; uniqueness is what the INSERT statements      *)
(* enforce through their ON CONFLICT clauses, not a property of the        *)
(* representation.  `rows[0]` of a query result is a set with at most one  *)
(* row: the empty set is JavaScript's undefined/null.                      *)
(*                                                                         *)
(* The tables carry the constraints the statements themselves name:        *)
(* address_key, user_key and (user_key, address_key) are the conflict      *)
(* targets of the three INSERTs.  The schema printed in README.MD belongs  *)
(* to an earlier createUser (it has user_tbl.address_key NOT NULL, a       *)
(* column the INSERT of part_000 never sets) and is not modelled beyond    *)
(* those keys.  A failure of the connection pool itself is not modelled.   *)
(***************************************************************************)
EXTENDS Integers, Sequences, FiniteSets, TLC

VARIABLES address_tbl, user_tbl, link_tbl, last, procs, store0, hash

vars == <<address_tbl, user_tbl, link_tbl, last, procs, store0, hash>>

----------------------------------------------------------------------------
(* Text                                                                    *)

Undefined == <<"undefined">>

EmptyStr == <<>>

\* JavaScript falsiness of a string-or-undefined value: undefined and ''.
Falsy(x) == x = Undefined \/ x = EmptyStr

\* `x || d`
OrElse(x, d) == IF Falsy(x) THEN d ELSE x

LowerTok(c) ==
    CASE c = "A" -> "a"
      [] c = "B" -> "b"
      [] c = "C" -> "c"
      [] c = "L" -> "l"
      [] c = "N" -> "n"
      [] c = "S" -> "s"
      [] c = "U" -> "u"
      [] c = "Y" -> "y"
      [] OTHER -> c

\* String.prototype.toLowerCase
toLowerCase(s) == [i \in DOMAIN s |-> LowerTok(s[i])]

----------------------------------------------------------------------------
(* src/src/utils/hash.ts                                                   *)

TypeError == <<"TypeError">>

\* crypto.createHash('sha256').update(data).digest('hex')
createHash(data) == <<"sha256">> \o data

Md5(data) == <<"md5">> \o data

\* a slip: the template literal without its .toLowerCase()
AddressHashStringCaseSensitive(address) ==
    OrElse(address.country_id, EmptyStr) \o OrElse(address.city, EmptyStr)
        \o OrElse(address.state, EmptyStr) \o OrElse(address.zip_code, EmptyStr)

\* the template literal of createAddressHash, lower-cased
AddressHashString(address) ==
    toLowerCase(OrElse(address.country_id, EmptyStr) \o OrElse(address.city, EmptyStr)
        \o OrElse(address.state, EmptyStr) \o OrElse(address.zip_code, EmptyStr))

createAddressHash(address) == Md5(AddressHashString(address))

\* a slip: the email is hashed as given, without .toLowerCase()
createUserHashCaseSensitive(email) ==
    IF email = Undefined THEN TypeError ELSE createHash(email)

\* email.toLowerCase() throws a TypeError when email is undefined
createUserHash(email) ==
    IF email = Undefined THEN TypeError ELSE createHash(toLowerCase(email))

----------------------------------------------------------------------------
(* The statements of DatabaseService, each one query against the pool.     *)
(* db is the record [a, u, l] of the three tables.                         *)

DB(a, u, l) == [a |-> a, u |-> u, l |-> l]

\* result.rows[0]: no row, or one of the rows
Rows0(rows) == IF rows = {} THEN {} ELSE {CHOOSE r \in rows : TRUE}

\* a query parameter that is undefined is sent as NULL: `col = NULL` matches nothing
SelectUserByEmail(db, email) ==
    {r \in db.u : email # Undefined /\ r.email = email}

SelectAddressByKey(db, addressKey) ==
    {r \in db.a : r.address_key = addressKey}

\* a slip: the INSERT without its ON CONFLICT clause, which the primary key
\* rejects for a pair that is already there
InsertLinkNoOnConflict(db, user_key, address_key) ==
    IF \E r \in db.l : r.user_key = user_key /\ r.address_key = address_key
    THEN [db |-> db, err |-> "duplicate key value violates unique constraint"]
    ELSE [db |-> [db EXCEPT !.l = db.l \cup
                     {[user_key |-> user_key, address_key |-> address_key]}],
          err |-> ""]

\* INSERT INTO user_address_link_tbl ... ON CONFLICT (user_key, address_key) DO NOTHING
InsertLink(db, user_key, address_key) ==
    IF \E r \in db.l : r.user_key = user_key /\ r.address_key = address_key
    THEN [db |-> db, err |-> ""]
    ELSE [db |-> [db EXCEPT !.l = db.l \cup
                     {[user_key |-> user_key, address_key |-> address_key]}],
          err |-> ""]

AddressRow(address_key, addressData) ==
    [address_key |-> address_key, country_id |-> addressData.country_id,
     city |-> addressData.city, state |-> addressData.state,
     zip_code |-> addressData.zip_code]

\* a slip: on a conflict the INSERT hands back the stored row (DO UPDATE ... RETURNING)
InsertAddressReturningStored(db, row) ==
    IF \E r \in db.a : r.address_key = row.address_key
    THEN [db |-> db, rows |-> {r \in db.a : r.address_key = row.address_key}]
    ELSE [db |-> [db EXCEPT !.a = db.a \cup {row}], rows |-> {row}]

\* INSERT INTO address_tbl ... ON CONFLICT (address_key) DO NOTHING RETURNING *
InsertAddress(db, row) ==
    IF \E r \in db.a : r.address_key = row.address_key
    THEN [db |-> db, rows |-> {}]
    ELSE [db |-> [db EXCEPT !.a = db.a \cup {row}], rows |-> {row}]

UserRow(user_key, userData) ==
    [user_key |-> user_key, first_name |-> userData.first_name,
     last_name |-> userData.last_name, email |-> userData.email]

\* a slip: on a conflict the INSERT hands back the stored row (DO UPDATE ... RETURNING)
InsertUserReturningStored(db, row) ==
    IF \E r \in db.u : r.user_key = row.user_key
    THEN [db |-> db, rows |-> {r \in db.u : r.user_key = row.user_key}]
    ELSE [db |-> [db EXCEPT !.u = db.u \cup {row}], rows |-> {row}]

\* INSERT INTO user_tbl ... ON CONFLICT (user_key) DO NOTHING RETURNING *
InsertUser(db, row) ==
    IF \E r \in db.u : r.user_key = row.user_key
    THEN [db |-> db, rows |-> {}]
    ELSE [db |-> [db EXCEPT !.u = db.u \cup {row}], rows |-> {row}]

\* a slip: the DELETE without its WHERE clause
DeleteLinksEveryUser(db, userKey) == [db EXCEPT !.l = {}]

\* DELETE FROM user_address_link_tbl WHERE user_key = $1
DeleteLinks(db, userKey) ==
    [db EXCEPT !.l = {r \in db.l : r.user_key # userKey}]

\* DELETE FROM address_tbl WHERE address_key NOT IN (SELECT address_key FROM link)
DeleteOrphans(db) ==
    [db EXCEPT !.a = {r \in db.a : \E k \in db.l : k.address_key = r.address_key}]

\* a slip: the user row is never deleted
DeleteUserRowSkipped(db, userKey) == db

\* DELETE FROM user_tbl WHERE user_key = $1
DeleteUserRow(db, userKey) ==
    [db EXCEPT !.u = {r \in db.u : r.user_key # userKey}]

\* a slip: the UPDATE without its WHERE clause
UpdateNamesEveryRow(db, email, first_name, last_name) ==
    [db EXCEPT !.u = {[r EXCEPT !.first_name = first_name, !.last_name = last_name] :
                        r \in db.u}]

\* UPDATE user_tbl SET first_name = $2, last_name = $3 WHERE email = $1
UpdateNames(db, email, first_name, last_name) ==
    [db EXCEPT !.u = {IF r.email = email
                      THEN [r EXCEPT !.first_name = first_name, !.last_name = last_name]
                      ELSE r : r \in db.u}]

----------------------------------------------------------------------------
(* The methods of DatabaseService run without interleaving: each returns   *)
(* the tables it leaves, what it returns (ret, a set of at most one row)   *)
(* and the message of the Error it throws ("" when it returns normally).   *)

Outcome(db, ret, err) == [db |-> db, ret |-> ret, err |-> err]

\* getUserByEmail
getUserByEmail(db, email) == Rows0(SelectUserByEmail(db, email))

\* getAddressById
getAddressById(db, addressKey) == Rows0(SelectAddressByKey(db, addressKey))

\* createUserAddressLink: the INSERT has no RETURNING, so rows[0] is undefined
createUserAddressLink(db, user_key, address_key) ==
    LET result == InsertLink(db, user_key, address_key)
    IN  Outcome(result.db, {}, result.err)

\* createAddress
createAddress(db, addressData) ==
    LET address_key == createAddressHash(addressData)
        existingAddress == getAddressById(db, address_key)
        result == InsertAddress(db, AddressRow(address_key, addressData))
    IN  IF existingAddress # {}
        THEN Outcome(db, existingAddress, "")
        ELSE Outcome(result.db, Rows0(result.rows), "")

\* a slip: an existing user's names are overwritten by the incoming ones (an upsert)
createUserOverwriting(db, userData) ==
    LET user_key == createUserHash(userData.email)
        existingUser == getUserByEmail(db, userData.email)
        updated == {[r EXCEPT !.first_name = userData.first_name,
                              !.last_name = userData.last_name] : r \in existingUser}
        result == InsertUser(db, UserRow(user_key, userData))
    IN  IF user_key = TypeError
        THEN Outcome(db, {}, "TypeError")
        ELSE IF existingUser # {}
        THEN Outcome([db EXCEPT !.u = (db.u \ existingUser) \cup updated], updated, "")
        ELSE IF Rows0(result.rows) = {}
        THEN Outcome(result.db, {}, "Email already exists")
        ELSE Outcome(result.db, Rows0(result.rows), "")

\* createUser
createUser(db, userData) ==
    LET user_key == createUserHash(userData.email)
        existingUser == getUserByEmail(db, userData.email)
        result == InsertUser(db, UserRow(user_key, userData))
    IN  IF user_key = TypeError
        THEN Outcome(db, {}, "TypeError")
        ELSE IF existingUser # {}
        THEN Outcome(db, existingUser, "")
        ELSE IF Rows0(result.rows) = {}
        THEN Outcome(result.db, {}, "Email already exists")
        ELSE Outcome(result.db, Rows0(result.rows), "")

NotFoundMessage == "User not found"

DeletedMessage == "User and associated address data deleted successfully"

\* userResult.rows[0]?.user_key
SelectedUserKey(db, email) == {r.user_key : r \in Rows0(SelectUserByEmail(db, email))}

\* a slip: the orphan sweep runs before the user's links are deleted
deleteUserAddressByEmailSweepFirst(db, email) ==
    LET userKey == SelectedUserKey(db, email)
        k == CHOOSE k \in userKey : TRUE
    IN  IF userKey = {}
        THEN [db |-> db, msg |-> NotFoundMessage]
        ELSE [db |-> DeleteUserRow(DeleteLinks(DeleteOrphans(db), k), k),
              msg |-> DeletedMessage]

\* deleteUserAddressByEmail: the tables it leaves and the message it returns
deleteUserAddressByEmail(db, email) ==
    LET userKey == SelectedUserKey(db, email)
        k == CHOOSE k \in userKey : TRUE
    IN  IF userKey = {}
        THEN [db |-> db, msg |-> NotFoundMessage]
        ELSE [db |-> DeleteUserRow(DeleteOrphans(DeleteLinks(db, k)), k),
              msg |-> DeletedMessage]

\* a slip: first_name is not among the required fields
updateUserFirstNameUnchecked(db, email, first_name, last_name) ==
    IF Falsy(email) \/ Falsy(last_name)
    THEN Outcome(db, {}, "Missing required fields")
    ELSE IF SelectUserByEmail(db, email) = {}
    THEN Outcome(db, {}, "User not found")
    ELSE Outcome(UpdateNames(db, email, first_name, last_name),
                 {[email |-> email, first_name |-> first_name, last_name |-> last_name]},
                 "")

\* updateUser: it returns {email, first_name, last_name}, the request's own values
updateUser(db, email, first_name, last_name) ==
    IF Falsy(email) \/ Falsy(first_name) \/ Falsy(last_name)
    THEN Outcome(db, {}, "Missing required fields")
    ELSE IF SelectUserByEmail(db, email) = {}
    THEN Outcome(db, {}, "User not found")
    ELSE Outcome(UpdateNames(db, email, first_name, last_name),
                 {[email |-> email, first_name |-> first_name, last_name |-> last_name]},
                 "")

----------------------------------------------------------------------------
(* The routes.  A request is [op, body]; req.body's missing fields read as *)
(* undefined.  A response is the status and the JSON body's members; the   *)
(* status 0 is an exception that leaves the async handler uncaught, so no  *)
(* response is sent (thrown holds its message).                            *)

Body(first_name, last_name, email, country_id, city, state, zip_code) ==
    [first_name |-> first_name, last_name |-> last_name, email |-> email,
     country_id |-> country_id, city |-> city, state |-> state, zip_code |-> zip_code]

Response(status, error, message, thrown, user, address, updated) ==
    [status |-> status, error |-> error, message |-> message, thrown |-> thrown,
     user |-> user, address_tbl |-> address, user_address_link_tbl |-> {},
     updated |-> updated]

AddressOf(body) ==
    [country_id |-> body.country_id, city |-> body.city, state |-> body.state,
     zip_code |-> body.zip_code]

UserOf(body) ==
    [first_name |-> body.first_name, last_name |-> body.last_name, email |-> body.email]

\* what the service methods a route called returned: n counts the calls that
\* returned or threw, address and user are the rows createAddress and createUser
\* returned, err is the message of the Error that ended the route ("" for none)
Calls(n, address, user, err) == [n |-> n, address |-> address, user |-> user, err |-> err]

NoCalls == Calls(0, {}, {}, "")

\* the catch block of router.post('/user')
CatchPost(thrown) ==
    IF thrown = "Email already exists"
    THEN Response(409, "Email already exists", "", thrown, {}, {}, {})
    ELSE Response(500, "Error creating user", "", thrown, {}, {}, {})

\* a change of policy: when createUser throws, the address insert is rolled back
PostUserRouteRollingBack(db, body) ==
    LET address_key == createAddressHash(AddressOf(body))
        user_key == createUserHash(body.email)
        a == createAddress(db, AddressOf(body))
        u == createUser(a.db, UserOf(body))
        k == createUserAddressLink(u.db, user_key, address_key)
    IN  IF user_key = TypeError
        THEN [db |-> db, res |-> CatchPost("TypeError"), calls |-> NoCalls]
        ELSE IF a.err # ""
        THEN [db |-> a.db, res |-> CatchPost(a.err), calls |-> Calls(1, {}, {}, a.err)]
        ELSE IF u.err # ""
        THEN [db |-> db, res |-> CatchPost(u.err), calls |-> Calls(2, a.ret, {}, u.err)]
        ELSE IF k.err # ""
        THEN [db |-> k.db, res |-> CatchPost(k.err), calls |-> Calls(3, a.ret, u.ret, k.err)]
        ELSE [db |-> k.db, res |-> Response(201, "", "", "", u.ret, a.ret, {}),
              calls |-> Calls(3, a.ret, u.ret, "")]

\* router.post('/user')
PostUserRoute(db, body) ==
    LET address_key == createAddressHash(AddressOf(body))
        user_key == createUserHash(body.email)
        a == createAddress(db, AddressOf(body))
        u == createUser(a.db, UserOf(body))
        k == createUserAddressLink(u.db, user_key, address_key)
    IN  IF user_key = TypeError
        THEN [db |-> db, res |-> CatchPost("TypeError"), calls |-> NoCalls]
        ELSE IF a.err # ""
        THEN [db |-> a.db, res |-> CatchPost(a.err), calls |-> Calls(1, {}, {}, a.err)]
        ELSE IF u.err # ""
        THEN [db |-> u.db, res |-> CatchPost(u.err), calls |-> Calls(2, a.ret, {}, u.err)]
        ELSE IF k.err # ""
        THEN [db |-> k.db, res |-> CatchPost(k.err), calls |-> Calls(3, a.ret, u.ret, k.err)]
        ELSE [db |-> k.db, res |-> Response(201, "", "", "", u.ret, a.ret, {}),
              calls |-> Calls(3, a.ret, u.ret, "")]

\* router.delete('/user')
DeleteUserRoute(db, body) ==
    LET d == deleteUserAddressByEmail(db, body.email)
    IN  [db |-> d.db, res |-> Response(200, "", d.msg, "", {}, {}, {}),
         calls |-> Calls(1, {}, {}, "")]

\* router.put('/user'): no try/catch around the await
PutUserRoute(db, body) ==
    LET r == updateUser(db, body.email, body.first_name, body.last_name)
    IN  IF r.err # ""
        THEN [db |-> r.db, res |-> Response(0, "", "", r.err, {}, {}, {}),
              calls |-> Calls(1, {}, {}, r.err)]
        ELSE [db |-> r.db, res |-> Response(200, "", "", "", {}, {}, r.ret),
              calls |-> Calls(1, {}, {}, "")]

----------------------------------------------------------------------------
(* The requests the model sends.                                           *)

Emails == {<<"A">>, <<"a">>, <<"B">>}

NamePairs == {<<<<"Ann">>, <<"Lee">>>>, <<<<"Bob">>, <<"Ray">>>>}

Addr(country_id, city, state, zip_code) ==
    [country_id |-> country_id, city |-> city, state |-> state, zip_code |-> zip_code]

\* two spellings of one address, and another address
AddrInputs ==
    {Addr(<<"U", "S">>, <<"N", "Y">>, <<"N", "Y">>, <<"1">>),
     Addr(<<"u", "s">>, <<"n", "y">>, <<"n", "y">>, <<"1">>),
     Addr(<<"U", "S">>, <<"L", "A">>, <<"C", "A">>, <<"9">>)}

PostRequest(n, e, a) ==
    [op |-> "POST", body |-> Body(n[1], n[2], e, a.country_id, a.city, a.state, a.zip_code)]

\* every name pair, email and address, and one body with no email
PostRequests ==
    {PostRequest(n, e, a) : n \in NamePairs, e \in Emails, a \in AddrInputs}
        \cup {PostRequest(<<<<"Ann">>, <<"Lee">>>>, Undefined,
                           Addr(<<"U", "S">>, <<"N", "Y">>, <<"N", "Y">>, <<"1">>))}

EmailOnly(e) == Body(Undefined, Undefined, e, Undefined, Undefined, Undefined, Undefined)

DeleteRequests ==
    {[op |-> "DELETE", body |-> EmailOnly(e)] : e \in Emails \cup {Undefined}}

PutRequest(e, f, l) ==
    [op |-> "PUT", body |-> Body(f, l, e, Undefined, Undefined, Undefined, Undefined)]

\* complete bodies for every email, and bodies with one field empty or missing
PutRequests ==
    {PutRequest(e, <<"Zed">>, <<"Kim">>) : e \in Emails \cup {EmptyStr, Undefined}}
        \cup {PutRequest(<<"A">>, f, <<"Kim">>) : f \in {EmptyStr, Undefined}}
        \cup {PutRequest(<<"A">>, <<"Zed">>, l) : l \in {EmptyStr, Undefined}}

NoRequest == [op |-> "none", body |-> EmailOnly(Undefined)]

NoResponse == Response(0, "", "", "", {}, {}, {})

EmptyDB == DB({}, {}, {})

Store == DB(address_tbl, user_tbl, link_tbl)

\* no key function has been applied
NoHash == [of |-> "none", done |-> FALSE, a |-> <<>>, e |-> <<>>, key |-> <<>>, str |-> <<>>]

----------------------------------------------------------------------------
(* One request at a time: each action is a whole route handler.  last is   *)
(* the request served last, its response, what its service calls returned, *)
(* the tables it started from, and how it repeats the request before it.   *)

\* a request in flight: where it stands (pc), its route and input, what its
\* awaits have returned so far, how many statements it has completed (n), and
\* its answer
Idle ==
    [pc |-> "idle", op |-> "none", email |-> Undefined, body |-> EmailOnly(Undefined),
     userKey |-> {}, msg |-> "", n |-> 0, existingAddress |-> {}, address |-> {},
     existingUser |-> {}, user |-> {}, rowCount |-> 0, updated |-> {}, err |-> "",
     status |-> 0]

\* how many requests the concurrent phase runs together
NumProcs == 2

ProcIds == 1 .. NumProcs

Init ==
    /\ address_tbl = {}
    /\ user_tbl = {}
    /\ link_tbl = {}
    /\ last = [req |-> NoRequest, res |-> NoResponse, calls |-> NoCalls,
               pre |-> EmptyDB, again |-> [email |-> FALSE, address |-> FALSE, changed |-> FALSE]]
    /\ procs = [p \in ProcIds |-> Idle]
    /\ store0 = EmptyDB
    /\ hash = NoHash

SameUpToCase(a, b) ==
    /\ toLowerCase(a.country_id) = toLowerCase(b.country_id)
    /\ toLowerCase(a.city) = toLowerCase(b.city)
    /\ toLowerCase(a.state) = toLowerCase(b.state)
    /\ toLowerCase(a.zip_code) = toLowerCase(b.zip_code)

\* req follows a request of the same route with exactly the same email that
\* was answered 200 or 201 (again.changed: and that request changed a table)
SameEmailAgain(req) ==
    /\ last.req.op = req.op
    /\ last.res.status \in {200, 201}
    /\ last.req.body.email = req.body.email

\* req is a POST that follows a POST whose createAddress returned, and the two
\* addresses are field by field equal up to letter case
SameAddressAgain(req) ==
    /\ req.op = "POST" /\ last.req.op = "POST"
    /\ last.calls.n >= 2
    /\ SameUpToCase(AddressOf(last.req.body), AddressOf(req.body))

NoneInFlight == \A p \in ProcIds : procs[p].pc = "idle"

\* the record of a request served alone
Served(req, r) ==
    [req |-> req, res |-> r.res, calls |-> r.calls, pre |-> Store,
     again |-> [email |-> SameEmailAgain(req), address |-> SameAddressAgain(req),
                changed |-> SameEmailAgain(req) /\ last.pre # Store]]

\* POST /user
PostUser ==
    \E req \in PostRequests : \E r \in {PostUserRoute(Store, req.body)} :
        /\ NoneInFlight
        /\ address_tbl' = r.db.a
        /\ user_tbl' = r.db.u
        /\ link_tbl' = r.db.l
        /\ last' = Served(req, r)
        /\ UNCHANGED <<procs, store0, hash>>

\* DELETE /user
DeleteUser ==
    \E req \in DeleteRequests : \E r \in {DeleteUserRoute(Store, req.body)} :
        /\ NoneInFlight
        /\ address_tbl' = r.db.a
        /\ user_tbl' = r.db.u
        /\ link_tbl' = r.db.l
        /\ last' = Served(req, r)
        /\ UNCHANGED <<procs, store0, hash>>

\* PUT /user
PutUser ==
    \E req \in PutRequests : \E r \in {PutUserRoute(Store, req.body)} :
        /\ NoneInFlight
        /\ address_tbl' = r.db.a
        /\ user_tbl' = r.db.u
        /\ link_tbl' = r.db.l
        /\ last' = Served(req, r)
        /\ UNCHANGED <<procs, store0, hash>>

Next == PostUser \/ DeleteUser \/ PutUser

Spec == Init /\ [][Next]_vars

----------------------------------------------------------------------------
(* Concurrent requests.  Every `await this.pool.query(...)` is one step, a  *)
(* statement the database runs atomically; between two steps of a request   *)
(* any other request may take steps.  The tables are first filled by        *)
(* requests served alone; then two DELETE /user requests for one email      *)
(* arrive together, and store0 keeps the tables they found.                 *)

\* POST /user, served alone before the concurrent requests arrive
SetupPost ==
    /\ NoneInFlight
    /\ \E req \in PostRequests : \E r \in {PostUserRoute(Store, req.body)} :
          /\ address_tbl' = r.db.a
          /\ user_tbl' = r.db.u
          /\ link_tbl' = r.db.l
    /\ UNCHANGED <<last, procs, store0, hash>>

\* DELETE /user, served alone before the concurrent requests arrive
SetupDelete ==
    /\ NoneInFlight
    /\ \E req \in DeleteRequests : \E r \in {DeleteUserRoute(Store, req.body)} :
          /\ address_tbl' = r.db.a
          /\ user_tbl' = r.db.u
          /\ link_tbl' = r.db.l
    /\ UNCHANGED <<last, procs, store0, hash>>

\* PUT /user, served alone before the concurrent requests arrive
SetupPut ==
    /\ NoneInFlight
    /\ \E req \in PutRequests : \E r \in {PutUserRoute(Store, req.body)} :
          /\ address_tbl' = r.db.a
          /\ user_tbl' = r.db.u
          /\ link_tbl' = r.db.l
    /\ UNCHANGED <<last, procs, store0, hash>>

\* two DELETE /user requests with the same email arrive
LaunchDeletes ==
    \E e \in Emails :
        /\ NoneInFlight
        /\ procs' = [p \in ProcIds |-> [Idle EXCEPT !.pc = "select", !.email = e]]
        /\ store0' = Store
        /\ UNCHANGED <<address_tbl, user_tbl, link_tbl, last, hash>>

\* deleteUserAddressByEmail, its SELECT: `if (!userKey) return 'User not found'`
DelSelect(p) ==
    /\ procs[p].pc = "select"
    /\ LET userKey == SelectedUserKey(Store, procs[p].email)
       IN  procs' = [procs EXCEPT ![p] =
                IF userKey = {}
                THEN [@ EXCEPT !.pc = "done", !.msg = NotFoundMessage]
                ELSE [@ EXCEPT !.pc = "links", !.userKey = userKey]]
    /\ UNCHANGED <<address_tbl, user_tbl, link_tbl, last, store0, hash>>

\* deleteUserAddressByEmail, its DELETE FROM user_address_link_tbl
DelLinks(p) ==
    /\ procs[p].pc = "links"
    /\ \E k \in procs[p].userKey : link_tbl' = DeleteLinks(Store, k).l
    /\ procs' = [procs EXCEPT ![p].pc = "orphans"]
    /\ UNCHANGED <<address_tbl, user_tbl, last, store0, hash>>

\* deleteUserAddressByEmail, its DELETE FROM address_tbl
DelOrphans(p) ==
    /\ procs[p].pc = "orphans"
    /\ address_tbl' = DeleteOrphans(Store).a
    /\ procs' = [procs EXCEPT ![p].pc = "user"]
    /\ UNCHANGED <<user_tbl, link_tbl, last, store0, hash>>

\* deleteUserAddressByEmail, its DELETE FROM user_tbl and its return
DelUser(p) ==
    /\ procs[p].pc = "user"
    /\ \E k \in procs[p].userKey : user_tbl' = DeleteUserRow(Store, k).u
    /\ procs' = [procs EXCEPT ![p] = [@ EXCEPT !.pc = "done", !.msg = DeletedMessage]]
    /\ UNCHANGED <<address_tbl, link_tbl, last, store0, hash>>

DeleteStep == \E p \in ProcIds : DelSelect(p) \/ DelLinks(p) \/ DelOrphans(p) \/ DelUser(p)

NextConc == SetupPost \/ SetupDelete \/ SetupPut \/ LaunchDeletes \/ DeleteStep

SpecConc == Init /\ [][NextConc]_vars

----------------------------------------------------------------------------
(* The claims, over the request served last.                               *)

LastIs(op) == last.req.op = op

LastEmail == last.req.body.email

LastAddressKey == createAddressHash(AddressOf(last.req.body))

LastUserKey == createUserHash(LastEmail)

\* C1: createAddress is idempotent.  A POST whose address equals, up to letter
\* case, the address of the POST served just before calls createAddress a
\* second time for the same key: it returns the one row the first call left
\* in address_tbl, with the values stored then, and the table is unchanged,
\* so it still holds exactly one row for the key.
C1_CreateAddressIdempotent ==
    (LastIs("POST") /\ last.again.address /\ last.calls.n >= 1) =>
        LET stored == {r \in last.pre.a : r.address_key = LastAddressKey}
        IN  /\ Cardinality(stored) = 1
            /\ last.calls.n >= 2
            /\ last.calls.address = stored
            /\ address_tbl = last.pre.a
            /\ {r \in address_tbl : r.address_key = LastAddressKey} = stored

\* the second createAddress returned a stored row spelled differently from its input
C1_Witness ==
    /\ LastIs("POST") /\ last.again.address /\ last.calls.n >= 2
    /\ \E r \in last.calls.address :
          /\ r \in last.pre.a
          /\ r.city # last.req.body.city
          /\ toLowerCase(r.city) = toLowerCase(last.req.body.city)

\* C2: of two createUser calls made one after the other with the same email,
\* the first succeeds and the second fails with 'Email already exists' (409).
C2_SecondCreateUserConflicts ==
    (LastIs("POST") /\ last.again.email) =>
        /\ last.calls.err = "Email already exists"
        /\ last.res.status = 409

LinksTo(db, a) == {k \in db.l : k.address_key = a.address_key}

\* the addresses of db all of whose links (at least one) are the user's
SoleAddresses(db, userKey) ==
    {a \in db.a : LinksTo(db, a) # {} /\ \A k \in LinksTo(db, a) : k.user_key = userKey}

\* the addresses of db that a user other than userKey is linked to
SharedAddresses(db, userKey) ==
    {a \in db.a : \E k \in LinksTo(db, a) : k.user_key # userKey}

\* C4: a deleteUserAddressByEmail that ran alone and deleted a user removed
\* every address whose only links were that user's, and kept every address
\* another user is linked to, with the other user's links.
C4_CascadeRemovesSoleKeepsShared ==
    (LastIs("DELETE") /\ last.res.message = DeletedMessage) =>
        \A u \in {r \in last.pre.u : r.email = LastEmail} :
            /\ \A a \in SoleAddresses(last.pre, u.user_key) : a \notin address_tbl
            /\ \A a \in SharedAddresses(last.pre, u.user_key) :
                  /\ a \in address_tbl
                  /\ \A k \in LinksTo(last.pre, a) :
                        k.user_key # u.user_key => k \in link_tbl

\* one delete removed an address only its user held and kept one it shared
C4_Witness ==
    /\ LastIs("DELETE") /\ last.res.message = DeletedMessage
    /\ \E u \in {r \in last.pre.u : r.email = LastEmail} :
          /\ \E a \in SoleAddresses(last.pre, u.user_key) : a \notin address_tbl
          /\ \E a \in SharedAddresses(last.pre, u.user_key) :
                /\ a \in address_tbl
                /\ \E k \in LinksTo(last.pre, a) : k.user_key = u.user_key

\* C5: a deleteUserAddressByEmail called right after a completed one for the
\* same email returns 'User not found', raises nothing and changes no table.
C5_SecondDeleteNotFound ==
    (LastIs("DELETE") /\ last.again.email) =>
        /\ last.res.status = 200
        /\ last.res.thrown = ""
        /\ last.res.message = NotFoundMessage
        /\ Store = last.pre

\* the first delete removed rows, and the second ran against tables that
\* still hold other users' rows
C5_Witness ==
    /\ LastIs("DELETE") /\ last.again.email /\ last.again.changed
    /\ last.res.message = NotFoundMessage
    /\ last.pre.u # {} /\ last.pre.a # {} /\ last.pre.l # {}

LastMissesField ==
    Falsy(LastEmail) \/ Falsy(last.req.body.first_name) \/ Falsy(last.req.body.last_name)

\* C7: updateUser throws 'Missing required fields' when email, first_name or
\* last_name is empty or missing, and 'User not found' when all three are
\* given and no row has the email; either way no table changes.
C7_UpdateUserFailures ==
    LastIs("PUT") =>
        /\ LastMissesField =>
              /\ last.calls.err = "Missing required fields"
              /\ last.res.status # 200
              /\ Store = last.pre
        /\ (~LastMissesField /\ ~\E r \in last.pre.u : r.email = LastEmail) =>
              /\ last.calls.err = "User not found"
              /\ last.res.status # 200
              /\ Store = last.pre

\* a PUT for a stored user was rejected for its empty first_name
C7_Witness ==
    /\ LastIs("PUT")
    /\ Falsy(last.req.body.first_name)
    /\ \E r \in last.pre.u : r.email = LastEmail
    /\ last.calls.err = "Missing required fields"
    /\ Store = last.pre

\* C8: a successful updateUser changes first_name and last_name of the row
\* with the given email and nothing else: that row keeps its email and
\* user_key, the other user rows, address_tbl and link_tbl are unchanged.
C8_UpdateUserFrame ==
    (LastIs("PUT") /\ last.res.status = 200) =>
        /\ address_tbl = last.pre.a
        /\ link_tbl = last.pre.l
        /\ Cardinality(user_tbl) = Cardinality(last.pre.u)
        /\ \A r \in last.pre.u :
              IF r.email = LastEmail
              THEN [user_key |-> r.user_key, email |-> r.email,
                    first_name |-> last.req.body.first_name,
                    last_name |-> last.req.body.last_name] \in user_tbl
              ELSE r \in user_tbl

\* an update changed one of two stored users
C8_Witness ==
    /\ LastIs("PUT") /\ last.res.status = 200
    /\ Cardinality(last.pre.u) = 2
    /\ user_tbl # last.pre.u

LastPair == [user_key |-> LastUserKey, address_key |-> LastAddressKey]

\* C9: createUserAddressLink called with a pair that is already in
\* link_tbl raises no error and leaves link_tbl unchanged.
C9_LinkIdempotent ==
    (LastIs("POST") /\ last.calls.n = 3 /\ LastPair \in last.pre.l) =>
        /\ last.calls.err = ""
        /\ last.res.status = 201
        /\ link_tbl = last.pre.l
        /\ Cardinality({k \in link_tbl : k = LastPair}) = 1

\* the same POST twice: the second createUserAddressLink met its own pair
C9_Witness ==
    /\ LastIs("POST") /\ last.calls.n = 3
    /\ last.again.email /\ last.again.address
    /\ LastPair \in last.pre.l
    /\ last.res.status = 201
    /\ Cardinality(last.pre.l) >= 2

\* C10: when createAddress has returned and createUser then throws, the POST
\* ends with the address row of the request in address_tbl, no link written
\* and no row deleted.
C10_AddressSurvivesFailedCreateUser ==
    (LastIs("POST") /\ last.calls.n = 2 /\ last.calls.err # "") =>
        /\ last.calls.address # {}
        /\ last.calls.address \subseteq address_tbl
        /\ address_tbl = last.pre.a \cup last.calls.address
        /\ link_tbl = last.pre.l
        /\ user_tbl = last.pre.u
        /\ last.res.status \in {409, 500}

\* createUser threw after createAddress had inserted a new row
C10_Witness ==
    /\ LastIs("POST") /\ last.calls.n = 2
    /\ last.calls.err = "Email already exists"
    /\ \E r \in last.calls.address : r \notin last.pre.a /\ r \in address_tbl

----------------------------------------------------------------------------
(* The claims about concurrent requests, under SpecConc.                   *)

AllDone == \A p \in ProcIds : procs[p].pc = "done"

BatchEmail == procs[1].email

\* what one delete of the user with this email leaves of db, said directly
AfterOneDelete(db, email) ==
    LET gone == {r.user_key : r \in {r \in db.u : r.email = email}}
        links == {k \in db.l : k.user_key \notin gone}
    IN  IF gone = {}
        THEN db
        ELSE DB({a \in db.a : \E k \in links : k.address_key = a.address_key},
                {r \in db.u : r.user_key \notin gone},
                links)

UserAtLaunch == \E r \in store0.u : r.email = BatchEmail

\* C6 as claimed: of two interleaved deletes of one stored user, one reports
\* the deletion and the other 'User not found', and the tables end as after
\* a single delete.
C6_OneDeletesOtherNotFound ==
    (AllDone /\ UserAtLaunch) =>
        /\ \E p, q \in ProcIds :
              /\ procs[p].msg = DeletedMessage
              /\ procs[q].msg = NotFoundMessage
        /\ Store = AfterOneDelete(store0, BatchEmail)

\* C6, amended: of two interleaved deletes of one email, each reports the
\* deletion or 'User not found'; when the user was stored at least one
\* reports the deletion (both may), otherwise both report 'User not found';
\* and in every interleaving the tables end as after a single delete.
C6_ConcurrentDeletesConverge ==
    AllDone =>
        /\ \A p \in ProcIds : procs[p].msg \in {DeletedMessage, NotFoundMessage}
        /\ UserAtLaunch => \E p \in ProcIds : procs[p].msg = DeletedMessage
        /\ ~UserAtLaunch => \A p \in ProcIds : procs[p].msg = NotFoundMessage
        /\ Store = AfterOneDelete(store0, BatchEmail)
        /\ Store = deleteUserAddressByEmail(store0, BatchEmail).db

\* both deletes passed the SELECT and both report the deletion; one address
\* was swept, another survives with another user's link
C6_Witness ==
    /\ AllDone
    /\ \A p \in ProcIds : procs[p].msg = DeletedMessage
    /\ \E a \in store0.a : a \notin address_tbl
    /\ address_tbl # {} /\ link_tbl # {}

----------------------------------------------------------------------------
(* Interrupted requests.  Nothing in part_000 or part_001 opens a          *)
(* transaction, so a handler that stops (the process dies, the connection   *)
(* is lost) leaves what its completed statements wrote.  The tables are     *)
(* first filled by requests served alone; then one request stops after k   *)
(* of its steps, store0 keeps the tables it found, and the client sends the *)
(* same request again.                                                      *)

\* router.post('/user') up to its k-th service call: 1 createAddress,
\* 2 createUser, 3 createUserAddressLink; ok: each of the k calls returned
PostUserRouteUpTo(db, body, k) ==
    LET address_key == createAddressHash(AddressOf(body))
        user_key == createUserHash(body.email)
        a == createAddress(db, AddressOf(body))
        u == createUser(a.db, UserOf(body))
        l == createUserAddressLink(u.db, user_key, address_key)
    IN  [db |-> IF k = 1 THEN a.db ELSE IF k = 2 THEN u.db ELSE l.db,
         ok |-> /\ user_key # TypeError
                /\ a.err = ""
                /\ k >= 2 => u.err = ""
                /\ k >= 3 => l.err = ""]

\* a slip: the user row is deleted first, then the links, then the orphans
deleteUserAddressByEmailUserFirstUpTo(db, email, k) ==
    LET userKey == SelectedUserKey(db, email)
        uk == CHOOSE uk \in userKey : TRUE
    IN  [db |-> IF userKey = {} \/ k = 1 THEN db
                ELSE IF k = 2 THEN DeleteUserRow(db, uk)
                ELSE DeleteLinks(DeleteUserRow(db, uk), uk),
         ok |-> userKey # {}]

\* deleteUserAddressByEmail up to its k-th statement: 1 the SELECT, 2 the
\* DELETE of the links, 3 the DELETE of the orphans; ok: the SELECT found the
\* user (otherwise the method has returned after its first statement)
deleteUserAddressByEmailUpTo(db, email, k) ==
    LET userKey == SelectedUserKey(db, email)
        uk == CHOOSE uk \in userKey : TRUE
    IN  [db |-> IF userKey = {} \/ k = 1 THEN db
                ELSE IF k = 2 THEN DeleteLinks(db, uk)
                ELSE DeleteOrphans(DeleteLinks(db, uk)),
         ok |-> userKey # {}]

\* a POST /user stops after k of its service calls
StopPost ==
    /\ NoneInFlight
    /\ \E req \in PostRequests : \E k \in 1 .. 3 :
         \E r \in {PostUserRouteUpTo(Store, req.body, k)} :
          /\ r.ok
          /\ address_tbl' = r.db.a
          /\ user_tbl' = r.db.u
          /\ link_tbl' = r.db.l
          /\ last' = [last EXCEPT !.req = req, !.pre = Store]
          /\ procs' = [procs EXCEPT ![1] =
                          [Idle EXCEPT !.pc = "stopped", !.op = "POST", !.n = k]]
    /\ store0' = Store
    /\ UNCHANGED hash

\* a DELETE /user stops after k of its statements
StopDelete ==
    /\ NoneInFlight
    /\ \E req \in DeleteRequests : \E k \in 1 .. 3 :
         \E r \in {deleteUserAddressByEmailUpTo(Store, req.body.email, k)} :
          /\ r.ok
          /\ address_tbl' = r.db.a
          /\ user_tbl' = r.db.u
          /\ link_tbl' = r.db.l
          /\ last' = [last EXCEPT !.req = req, !.pre = Store]
          /\ procs' = [procs EXCEPT ![1] =
                          [Idle EXCEPT !.pc = "stopped", !.op = "DELETE", !.n = k]]
    /\ store0' = Store
    /\ UNCHANGED hash

\* the stopped POST /user is sent again, and served alone
RetryPost ==
    /\ procs[1].pc = "stopped" /\ procs[1].op = "POST"
    /\ \E r \in {PostUserRoute(Store, last.req.body)} :
          /\ address_tbl' = r.db.a
          /\ user_tbl' = r.db.u
          /\ link_tbl' = r.db.l
          /\ last' = Served(last.req, r)
    /\ procs' = [procs EXCEPT ![1].pc = "retried"]
    /\ UNCHANGED <<store0, hash>>

\* the stopped DELETE /user is sent again, and served alone
RetryDelete ==
    /\ procs[1].pc = "stopped" /\ procs[1].op = "DELETE"
    /\ \E r \in {DeleteUserRoute(Store, last.req.body)} :
          /\ address_tbl' = r.db.a
          /\ user_tbl' = r.db.u
          /\ link_tbl' = r.db.l
          /\ last' = Served(last.req, r)
    /\ procs' = [procs EXCEPT ![1].pc = "retried"]
    /\ UNCHANGED <<store0, hash>>

NextRetry ==
    \/ SetupPost \/ SetupDelete \/ SetupPut
    \/ StopPost \/ StopDelete \/ RetryPost \/ RetryDelete

SpecRetry == Init /\ [][NextRetry]_vars

Stopped(op) == procs[1].pc = "stopped" /\ procs[1].op = op

Retried(op) == procs[1].pc = "retried" /\ procs[1].op = op

\* C11 as claimed: a POST /user sent again after it stopped behind any of its
\* three service calls is answered 201 and leaves the tables a single
\* uninterrupted run from the original tables leaves, with exactly one
\* address row, one user row and one link row for its input.
C11_RetryOfPostSucceeds ==
    Retried("POST") =>
        /\ last.res.status = 201
        /\ Store = PostUserRoute(store0, last.req.body).db
        /\ Cardinality({a \in address_tbl : a.address_key = LastAddressKey}) = 1
        /\ Cardinality({u \in user_tbl : u.user_key = LastUserKey}) = 1
        /\ Cardinality({l \in link_tbl : l = LastPair}) = 1

\* C12: a deleteUserAddressByEmail that found its user and stopped between
\* two statements has not touched user_tbl, so the user row is still there:
\* after the SELECT nothing is changed, after the DELETE of the links exactly
\* the user's links are gone and every address is kept, after the orphan
\* sweep exactly the linked addresses are kept.  The same delete sent again
\* reports the deletion and leaves the tables an uninterrupted delete leaves.
C12_InterruptedDeleteRecovers ==
    /\ Stopped("DELETE") =>
          /\ \E r \in user_tbl : r.email = LastEmail
          /\ user_tbl = store0.u
          /\ procs[1].n = 1 => Store = store0
          /\ procs[1].n >= 2 =>
                link_tbl = {k \in store0.l :
                              \A r \in store0.u : r.email = LastEmail => k.user_key # r.user_key}
          /\ procs[1].n = 2 => address_tbl = store0.a
          /\ procs[1].n = 3 =>
                address_tbl = {a \in store0.a : \E k \in link_tbl : k.address_key = a.address_key}
    /\ Retried("DELETE") =>
          /\ last.res.message = DeletedMessage
          /\ Store = AfterOneDelete(store0, LastEmail)
          /\ Store = deleteUserAddressByEmail(store0, LastEmail).db

\* the delete stopped behind the DELETE of the links, which removed a link;
\* sent again it swept an address the first run had left orphaned
C12_Witness ==
    /\ Retried("DELETE") /\ procs[1].n = 2
    /\ last.pre.l # store0.l
    /\ address_tbl # last.pre.a
    /\ last.res.message = DeletedMessage

----------------------------------------------------------------------------
(* Racing requests.  The tables are first filled by requests served alone; *)
(* then a POST /user arrives together with another POST /user or with a     *)
(* DELETE /user, and every await of the two handlers is one step: the       *)
(* SELECT and the INSERT of createAddress, the SELECT and the INSERT of     *)
(* createUser, the INSERT of createUserAddressLink, and the four statements *)
(* of deleteUserAddressByEmail.  store0 keeps the tables at arrival.        *)

Racers == {1, 2}

\* the bodies of the first POST /user of a race: one email, every address
FirstPosts ==
    {PostRequest(<<<<"Ann">>, <<"Lee">>>>, <<"A">>, a) : a \in AddrInputs}

\* the bodies of the second POST /user of a race: every email, every address
SecondPosts ==
    {PostRequest(<<<<"Bob">>, <<"Ray">>>>, e, a) : e \in Emails, a \in AddrInputs}

Arrived(req) ==
    IF req.op = "POST"
    THEN [Idle EXCEPT !.pc = "addrLookup", !.op = "POST", !.email = req.body.email,
                      !.body = req.body]
    ELSE [Idle EXCEPT !.pc = "select", !.op = "DELETE", !.email = req.body.email,
                      !.body = req.body]

\* two POST /user requests arrive together
LaunchPosts ==
    /\ NoneInFlight
    /\ \E r1 \in FirstPosts : \E r2 \in SecondPosts :
          procs' = [p \in ProcIds |->
                      IF p = 1 THEN Arrived(r1) ELSE IF p = 2 THEN Arrived(r2) ELSE Idle]
    /\ store0' = Store
    /\ UNCHANGED <<address_tbl, user_tbl, link_tbl, last, hash>>

\* a POST /user and a DELETE /user arrive together
LaunchPostAndDelete ==
    /\ NoneInFlight
    /\ \E r1 \in FirstPosts : \E e \in Emails :
          procs' = [p \in ProcIds |->
                      IF p = 1 THEN Arrived(r1)
                      ELSE IF p = 2 THEN Arrived([op |-> "DELETE", body |-> EmailOnly(e)])
                      ELSE Idle]
    /\ store0' = Store
    /\ UNCHANGED <<address_tbl, user_tbl, link_tbl, last, hash>>

\* createAddress: `const existingAddress = await this.getAddressById(address_key)`
PostAddrLookup(p) ==
    /\ procs[p].pc = "addrLookup"
    /\ LET existingAddress ==
               getAddressById(Store, createAddressHash(AddressOf(procs[p].body)))
       IN  procs' = [procs EXCEPT ![p] =
                IF existingAddress # {}
                THEN [@ EXCEPT !.pc = "userLookup", !.existingAddress = existingAddress,
                               !.address = existingAddress]
                ELSE [@ EXCEPT !.pc = "addrInsert"]]
    /\ UNCHANGED <<address_tbl, user_tbl, link_tbl, last, store0, hash>>

\* createAddress: its INSERT and `return result.rows[0]`
PostAddrInsert(p) ==
    /\ procs[p].pc = "addrInsert"
    /\ LET addressData == AddressOf(procs[p].body)
           result == InsertAddress(Store, AddressRow(createAddressHash(addressData), addressData))
       IN  /\ address_tbl' = result.db.a
           /\ procs' = [procs EXCEPT ![p] =
                          [@ EXCEPT !.pc = "userLookup", !.address = Rows0(result.rows)]]
    /\ UNCHANGED <<user_tbl, link_tbl, last, store0, hash>>

\* createUser: `const existingUser = await this.getUserByEmail(userData.email)`
PostUserLookup(p) ==
    /\ procs[p].pc = "userLookup"
    /\ LET existingUser == getUserByEmail(Store, procs[p].body.email)
       IN  procs' = [procs EXCEPT ![p] =
                IF existingUser # {}
                THEN [@ EXCEPT !.pc = "link", !.existingUser = existingUser,
                               !.user = existingUser]
                ELSE [@ EXCEPT !.pc = "userInsert"]]
    /\ UNCHANGED <<address_tbl, user_tbl, link_tbl, last, store0, hash>>

\* createUser: its INSERT, `if (!result.rows[0]) throw new Error('Email already
\* exists')`, and the 409 of the route's catch block
PostUserInsert(p) ==
    /\ procs[p].pc = "userInsert"
    /\ LET userData == UserOf(procs[p].body)
           result == InsertUser(Store, UserRow(createUserHash(userData.email), userData))
       IN  /\ user_tbl' = result.db.u
           /\ procs' = [procs EXCEPT ![p] =
                IF Rows0(result.rows) = {}
                THEN [@ EXCEPT !.pc = "done", !.err = "Email already exists",
                               !.status = CatchPost("Email already exists").status]
                ELSE [@ EXCEPT !.pc = "link", !.user = Rows0(result.rows)]]
    /\ UNCHANGED <<address_tbl, link_tbl, last, store0, hash>>

\* createUserAddressLink and `res.status(201).json(...)`
PostLink(p) ==
    /\ procs[p].pc = "link"
    /\ LET result == InsertLink(Store, createUserHash(procs[p].body.email),
                                createAddressHash(AddressOf(procs[p].body)))
       IN  /\ link_tbl' = result.db.l
           /\ procs' = [procs EXCEPT ![p] =
                IF result.err # ""
                THEN [@ EXCEPT !.pc = "done", !.err = result.err,
                               !.status = CatchPost(result.err).status]
                ELSE [@ EXCEPT !.pc = "done", !.status = 201]]
    /\ UNCHANGED <<address_tbl, user_tbl, last, store0, hash>>

PostStep ==
    \E p \in Racers :
        \/ PostAddrLookup(p) \/ PostAddrInsert(p)
        \/ PostUserLookup(p) \/ PostUserInsert(p) \/ PostLink(p)

\* a PUT /user and a DELETE /user arrive together
LaunchPutAndDelete ==
    /\ NoneInFlight
    /\ \E r1 \in PutRequests : \E e \in Emails :
          procs' = [p \in ProcIds |->
                      IF p = 1
                      THEN [Idle EXCEPT !.pc = "putSelect", !.op = "PUT",
                                        !.email = r1.body.email, !.body = r1.body]
                      ELSE IF p = 2 THEN Arrived([op |-> "DELETE", body |-> EmailOnly(e)])
                      ELSE Idle]
    /\ store0' = Store
    /\ UNCHANGED <<address_tbl, user_tbl, link_tbl, last, hash>>

\* updateUser: the check of the required fields, `await this.pool.query(
\* checkUserQuery, [email])` and `if (userExists.rows.length === 0) throw`;
\* the route has no try/catch, so a throw leaves the request unanswered
PutSelect(p) ==
    /\ procs[p].pc = "putSelect"
    /\ LET body == procs[p].body
       IN  procs' = [procs EXCEPT ![p] =
                IF Falsy(body.email) \/ Falsy(body.first_name) \/ Falsy(body.last_name)
                THEN [@ EXCEPT !.pc = "done", !.err = "Missing required fields"]
                ELSE IF SelectUserByEmail(Store, body.email) = {}
                THEN [@ EXCEPT !.pc = "done", !.err = "User not found"]
                ELSE [@ EXCEPT !.pc = "putUpdate"]]
    /\ UNCHANGED <<address_tbl, user_tbl, link_tbl, last, store0, hash>>

\* updateUser: its UPDATE, whose result (rowCount) is not read, then `return
\* {email, first_name, last_name}` and the route's res.status(200)
PutUpdate(p) ==
    /\ procs[p].pc = "putUpdate"
    /\ LET body == procs[p].body
       IN  /\ user_tbl' = UpdateNames(Store, body.email, body.first_name, body.last_name).u
           /\ procs' = [procs EXCEPT ![p] =
                [@ EXCEPT !.pc = "done", !.status = 200,
                          !.rowCount = Cardinality(SelectUserByEmail(Store, body.email)),
                          !.updated = {[email |-> body.email, first_name |-> body.first_name,
                                        last_name |-> body.last_name]}]]
    /\ UNCHANGED <<address_tbl, link_tbl, last, store0, hash>>

PutStep == \E p \in Racers : PutSelect(p) \/ PutUpdate(p)

NextRace ==
    \/ SetupPost \/ SetupDelete \/ SetupPut
    \/ LaunchPosts \/ LaunchPostAndDelete \/ LaunchPutAndDelete
    \/ PostStep \/ PutStep \/ DeleteStep

SpecRace == Init /\ [][NextRace]_vars

RaceDone == \A p \in Racers : procs[p].pc = "done"

PostRace == \A p \in Racers : procs[p].op = "POST"

AddressKeyOf(p) == createAddressHash(AddressOf(procs[p].body))

UserKeyOf(p) == createUserHash(procs[p].body.email)

\* the request's createAddress has returned, its lookup having found nothing
AddressLookupMissed(p) ==
    /\ procs[p].pc \in {"userLookup", "userInsert", "link", "done"}
    /\ procs[p].existingAddress = {}

\* the request's createUser has returned or thrown, its lookup having found nothing
UserLookupMissed(p) ==
    /\ procs[p].pc \in {"link", "done"}
    /\ procs[p].existingUser = {}

\* C13: when two createUser calls with the same email both passed the lookup
\* with nothing found and both ran their INSERT, user_tbl holds exactly one
\* row with their user_key; a call got no row exactly when it threw 'Email
\* already exists' (answered 409), and at least one did; a call that did not
\* throw holds a stored row of its email, and when the user was not stored at
\* arrival one of the two holds the row it inserted.
C13_RacingCreateUserOneRowOtherThrows ==
    (/\ PostRace
     /\ procs[1].body.email = procs[2].body.email
     /\ \A p \in Racers : UserLookupMissed(p)) =>
        /\ Cardinality({r \in user_tbl : r.user_key = UserKeyOf(1)}) = 1
        /\ \A p \in Racers :
              /\ procs[p].user = {} <=> procs[p].err = "Email already exists"
              /\ procs[p].err # "" => procs[p].status = 409
              /\ procs[p].status = 201 => procs[p].user # {}
              /\ \A r \in procs[p].user : r \in user_tbl /\ r.email = procs[p].body.email
        /\ \E p \in Racers : procs[p].err = "Email already exists"
        /\ (\A r \in store0.u : r.user_key # UserKeyOf(1)) =>
              \E p \in Racers : \E r \in procs[p].user : r \notin store0.u /\ r \in user_tbl

\* both lookups missed a user that was not stored; the first request was
\* answered 409 and the second 201 with the row it inserted
C13_Witness ==
    /\ PostRace /\ RaceDone
    /\ procs[1].body.email = procs[2].body.email
    /\ \A p \in Racers : UserLookupMissed(p)
    /\ \A r \in store0.u : r.user_key # UserKeyOf(1)
    /\ procs[1].status = 409 /\ procs[1].err = "Email already exists"
    /\ procs[2].status = 201 /\ procs[2].user # {}

\* C14: when two createAddress calls with the same address key both passed
\* the lookup with nothing found and both ran their INSERT, address_tbl holds
\* exactly one row with that key; one call returned that row and the other,
\* whose INSERT the conflict suppressed, returned no row; createAddress threw
\* in neither: each request went on to createUser, and the only error a
\* request ends with is createUser's 'Email already exists'.
C14_RacingCreateAddressOneRowOtherEmpty ==
    (/\ PostRace
     /\ AddressKeyOf(1) = AddressKeyOf(2)
     /\ \A p \in Racers : AddressLookupMissed(p)) =>
        /\ Cardinality({a \in address_tbl : a.address_key = AddressKeyOf(1)}) = 1
        /\ \E p, q \in Racers :
              /\ p # q
              /\ procs[p].address = {}
              /\ procs[q].address = {a \in address_tbl : a.address_key = AddressKeyOf(1)}
        /\ \A p \in Racers :
              /\ procs[p].status # 500
              /\ procs[p].err # "" =>
                    procs[p].err = "Email already exists" /\ procs[p].existingUser = {}

\* both lookups missed; the second request's INSERT was suppressed, it got
\* no row from createAddress and was answered 201 all the same
C14_Witness ==
    /\ PostRace /\ RaceDone
    /\ AddressKeyOf(1) = AddressKeyOf(2)
    /\ \A p \in Racers : AddressLookupMissed(p)
    /\ procs[2].address = {} /\ procs[2].status = 201
    /\ procs[1].address # {}

\* C19 as claimed: once the two racing requests have finished, every link
\* row refers to a stored user and to a stored address.
C19_LinksReferToStoredRows ==
    RaceDone =>
        \A k \in link_tbl :
            /\ \E r \in user_tbl : r.user_key = k.user_key
            /\ \E a \in address_tbl : a.address_key = k.address_key

\* C21 as claimed: an updateUser racing a deleteUserAddressByEmail returns
\* {email, first_name, last_name} (answered 200) only if its UPDATE modified a
\* user row with that email.
C21_UpdateSucceedsOnlyIfRowChanged ==
    \A p \in Racers :
        (procs[p].op = "PUT" /\ procs[p].pc = "done" /\ procs[p].updated # {}) =>
            procs[p].rowCount >= 1

----------------------------------------------------------------------------
(* The key functions of hash.ts on their own.  A behaviour starts with two  *)
(* address inputs or two email inputs, fields missing or empty included,    *)
(* and applies createAddressHash or createUserHash to both; hash.str keeps  *)
(* the strings fed to the digest and hash.key the keys (TypeError for a     *)
(* call that threw).                                                        *)

CountryInputs == {<<"U">>, <<"u">>, Undefined}

CityInputs == {<<"N">>, <<"n">>, <<"N", "Y">>, Undefined}

StateInputs == {<<"Y">>, <<"y">>, <<"Y", "Y">>, EmptyStr, Undefined}

ZipInputs == {<<"1">>, Undefined}

HashAddresses ==
    {Addr(c, t, s, z) : c \in CountryInputs, t \in CityInputs, s \in StateInputs,
                        z \in ZipInputs}

HashEmails ==
    {<<"A">>, <<"a">>, <<"B">>, <<"A", "b">>, <<"a", "B">>, EmptyStr, Undefined}

HashCall(of, a, e) ==
    [of |-> of, done |-> FALSE, a |-> a, e |-> e, key |-> <<>>, str |-> <<>>]

InitHash ==
    /\ address_tbl = {}
    /\ user_tbl = {}
    /\ link_tbl = {}
    /\ last = [req |-> NoRequest, res |-> NoResponse, calls |-> NoCalls,
               pre |-> EmptyDB, again |-> [email |-> FALSE, address |-> FALSE, changed |-> FALSE]]
    /\ procs = [p \in ProcIds |-> Idle]
    /\ store0 = EmptyDB
    /\ hash \in {HashCall("address", <<a1, a2>>, <<>>) : a1, a2 \in HashAddresses}
                  \cup {HashCall("user", <<>>, <<e1, e2>>) : e1, e2 \in HashEmails}

\* createAddressHash(address), for both inputs
ApplyAddressHash ==
    /\ hash.of = "address" /\ ~hash.done
    /\ hash' = [hash EXCEPT !.done = TRUE,
                            !.str = [i \in 1 .. 2 |-> AddressHashString(hash.a[i])],
                            !.key = [i \in 1 .. 2 |-> createAddressHash(hash.a[i])]]
    /\ UNCHANGED <<address_tbl, user_tbl, link_tbl, last, procs, store0>>

\* createUserHash(email), for both inputs
ApplyUserHash ==
    /\ hash.of = "user" /\ ~hash.done
    /\ hash' = [hash EXCEPT !.done = TRUE,
                            !.key = [i \in 1 .. 2 |-> createUserHash(hash.e[i])]]
    /\ UNCHANGED <<address_tbl, user_tbl, link_tbl, last, procs, store0>>

NextHash == ApplyAddressHash \/ ApplyUserHash

SpecHash == InitHash /\ [][NextHash]_vars

HashedAddresses == hash.of = "address" /\ hash.done

HashedEmails == hash.of = "user" /\ hash.done

\* the address with '' for every missing field
Filled(address) == [f \in DOMAIN address |-> OrElse(address[f], EmptyStr)]

\* C15: two address inputs that are field by field equal up to letter case
\* get the same key from createAddressHash.
C15_AddressKeyIgnoresCase ==
    (HashedAddresses /\ SameUpToCase(hash.a[1], hash.a[2])) => hash.key[1] = hash.key[2]

\* two different inputs, equal up to case, with a letter in three fields
C15_Witness ==
    /\ HashedAddresses
    /\ SameUpToCase(hash.a[1], hash.a[2])
    /\ hash.a[1].country_id # hash.a[2].country_id
    /\ hash.a[1].city # hash.a[2].city
    /\ hash.a[1].state # hash.a[2].state
    /\ hash.key[1] = hash.key[2]

\* C16: two emails that are equal up to letter case get the same key from
\* createUserHash, and the call returns (it throws for neither).
C16_UserKeyIgnoresCase ==
    (/\ HashedEmails
     /\ hash.e[1] # Undefined /\ hash.e[2] # Undefined
     /\ toLowerCase(hash.e[1]) = toLowerCase(hash.e[2])) =>
        /\ hash.key[1] = hash.key[2]
        /\ hash.key[1] # TypeError

\* two different emails of two letters, equal up to case
C16_Witness ==
    /\ HashedEmails
    /\ hash.e[1] # hash.e[2]
    /\ Len(hash.e[1]) = 2
    /\ toLowerCase(hash.e[1]) = toLowerCase(hash.e[2])
    /\ hash.key[1] = hash.key[2]

\* C17 as claimed: neither key function throws on a missing input;
\* createAddressHash returns the key of the input with '' for every missing
\* field, and createUserHash of a missing email returns the key of ''.
C17_KeyFunctionsTotal ==
    /\ HashedAddresses =>
          \A i \in 1 .. 2 :
              /\ hash.key[i] # TypeError
              /\ hash.key[i] = createAddressHash(Filled(hash.a[i]))
    /\ HashedEmails =>
          \A i \in 1 .. 2 :
              /\ hash.key[i] # TypeError
              /\ hash.e[i] = Undefined => hash.key[i] = createHash(toLowerCase(EmptyStr))

\* C20 as claimed: two address inputs whose lower-cased fields ('' for a
\* missing one) differ in some field feed different strings to the digest,
\* and so get different keys.
C20_AddressKeysSeparate ==
    (/\ HashedAddresses
     /\ \E f \in DOMAIN hash.a[1] :
           toLowerCase(Filled(hash.a[1])[f]) # toLowerCase(Filled(hash.a[2])[f])) =>
        /\ hash.str[1] # hash.str[2]
        /\ hash.key[1] # hash.key[2]

----------------------------------------------------------------------------
(* A claim about createUser over the request served last, under Spec.      *)

\* C18 as claimed: a createUser whose email has the user_key of a stored
\* user (the same email up to letter case) returns that stored row, throws
\* nothing and leaves user_tbl as it was.
C18_CaseVariantEmailResolves ==
    (LastIs("POST") /\ last.calls.n >= 2
        /\ \E r \in last.pre.u : r.user_key = LastUserKey) =>
        /\ last.calls.err = ""
        /\ last.calls.user = {r \in last.pre.u : r.user_key = LastUserKey}
        /\ user_tbl = last.pre.u

====
